---- MODULE Spec2Model ----
(***************************************************************************)
(* Classical-Ciphers-Python: the encrypt/decrypt functions of the eleven   *)
(* cipher modules, as operators over texts, and a state machine that calls *)
(* them.  A text is a sequence of character codes (Python's ord values,    *)
(* restricted to ASCII); a call either returns a text or raises.           *)
(***************************************************************************)
EXTENDS Integers, Sequences, FiniteSets, TLC

VARIABLES cipher, text, key, pc, enc, dec

vars == <<cipher, text, key, pc, enc, dec>>

(***************************************************************************)
(* Bounds of the model.                                                    *)
(***************************************************************************)
MaxLen == 3
MaxKeyLen == 2
MaxShift == 27
MaxA == 27
MaxB == 1
MaxAffineLen == 2
MaxEntry == 3
MaxDim == 5
MaxCols == 3
MaxMyszLen == 9
MaxRails == 4
MaxRailLen == 8
MaxNgramLen == 5
MaxN == 4
MaxSeqLen == 3

(***************************************************************************)
(* The alphabet size every cipher reduces by.                              *)
(***************************************************************************)
M == 26

(***************************************************************************)
(* Python primitives.                                                      *)
(***************************************************************************)
\* a // b and a % b: floor division, the remainder takes the divisor's sign.
PyFloorDiv(a, b) == a \div b

PyMod(a, b) == a - b * (a \div b)

\* str.isupper / islower / isalpha / isalnum of one ASCII character.
isupper(c) == c \in 65..90

islower(c) == c \in 97..122

isalpha(c) == isupper(c) \/ islower(c)

isdigit(c) == c \in 48..57

isalnum(c) == isalpha(c) \/ isdigit(c)

\* str.upper / str.lower of one character and of a string.
upper(c) == IF islower(c) THEN c - 32 ELSE c

lower(c) == IF isupper(c) THEN c + 32 ELSE c

str_upper(s) == [i \in 1..Len(s) |-> upper(s[i])]

\* A call's outcome: the returned text, or the exception it raised.
Ok(s) == [err |-> "none", val |-> s]

Raise(e) == [err |-> e, val |-> <<>>]

Unset == [err |-> "unset", val |-> <<>>]

\* All the sequences over S of length 0..n.
SeqsUpTo(S, n) == UNION {[1..k -> S] : k \in 0..n}

\* range(a, b) and range(a, b, -1).
Range(a, b) == [i \in 1..(IF b > a THEN b - a ELSE 0) |-> a + i - 1]

RangeDown(a, b) == [i \in 1..(IF a > b THEN a - b ELSE 0) |-> a - i + 1]

(***************************************************************************)
(* caesar.py                                                               *)
(***************************************************************************)
caesar_encrypt(t, shift) ==
    [i \in 1..Len(t) |->
        IF isalpha(t[i])
        THEN LET ascii_base == IF isupper(t[i]) THEN 65 ELSE 97
                 shifted == (t[i] - ascii_base + shift) % M
             IN  ascii_base + shifted
        ELSE t[i]]

caesar_decrypt(t, shift) == caesar_encrypt(t, -shift)

(***************************************************************************)
(* august.py                                                               *)
(***************************************************************************)
RECURSIVE august_encrypt_loop(_, _, _, _)
august_encrypt_loop(t, i, shift, result) ==
    IF i > Len(t) THEN result
    ELSE IF isalpha(t[i])
         THEN LET ascii_base == IF isupper(t[i]) THEN 65 ELSE 97
                  shifted == (t[i] - ascii_base + shift) % M
              IN  august_encrypt_loop(t, i + 1, shift + 1,
                                      Append(result, ascii_base + shifted))
         ELSE august_encrypt_loop(t, i + 1, shift, Append(result, t[i]))

august_encrypt(t, initial_shift) ==
    august_encrypt_loop(t, 1, initial_shift, <<>>)

RECURSIVE august_decrypt_loop(_, _, _, _)
august_decrypt_loop(t, i, shift, result) ==
    IF i > Len(t) THEN result
    ELSE IF isalpha(t[i])
         THEN LET ascii_base == IF isupper(t[i]) THEN 65 ELSE 97
                  shifted == (t[i] - ascii_base - shift) % M
              IN  august_decrypt_loop(t, i + 1, shift + 1,
                                      Append(result, ascii_base + shifted))
         ELSE august_decrypt_loop(t, i + 1, shift, Append(result, t[i]))

\* A decrypt whose shift never advances.
august_decrypt_frozen(t, initial_shift) == caesar_encrypt(t, -initial_shift)

august_decrypt(t, initial_shift) ==
    august_decrypt_loop(t, 1, initial_shift, <<>>)

(***************************************************************************)
(* atbash.py                                                               *)
(***************************************************************************)
atbash_encrypt(t) ==
    [i \in 1..Len(t) |->
        IF isalpha(t[i])
        THEN IF isupper(t[i]) THEN 90 - (t[i] - 65) ELSE 122 - (t[i] - 97)
        ELSE t[i]]

atbash_decrypt(t) == atbash_encrypt(t)

(***************************************************************************)
(* affine.py                                                               *)
(***************************************************************************)
RECURSIVE gcd(_, _)
gcd(a, b) == IF b = 0 THEN a ELSE gcd(b, PyMod(a, b))

\* extended_gcd returns the triple (gcd, x, y).
RECURSIVE extended_gcd(_, _)
extended_gcd(a, b) ==
    IF a = 0 THEN <<b, 0, 1>>
    ELSE LET r == extended_gcd(PyMod(b, a), a)
             x == r[3] - PyFloorDiv(b, a) * r[2]
             y == r[2]
         IN  <<r[1], x, y>>

\* mod_inverse returns an integer or raises; the integer is carried in val.
mod_inverse(a, m) ==
    IF gcd(a, m) # 1 THEN Raise("ValueError")
    ELSE Ok(PyMod(extended_gcd(a, m)[2], m))

affine_encrypt(t, a, b) ==
    IF gcd(a, M) # 1 THEN Raise("ValueError")
    ELSE Ok([i \in 1..Len(t) |->
               IF isalpha(t[i])
               THEN LET x == upper(t[i]) - 65
                        encrypted_x == (a * x + b) % M
                        encrypted_char == encrypted_x + 65
                    IN  IF isupper(t[i]) THEN encrypted_char
                        ELSE lower(encrypted_char)
               ELSE t[i]])

affine_decrypt(t, a, b) ==
    IF gcd(a, M) # 1 THEN Raise("ValueError")
    ELSE LET inv == mod_inverse(a, M) IN
         IF inv.err # "none" THEN inv
         ELSE LET a_inv == inv.val IN
              Ok([i \in 1..Len(t) |->
                    IF isalpha(t[i])
                    THEN LET y == upper(t[i]) - 65
                             decrypted_y == (a_inv * (y - b)) % M
                             decrypted_char == decrypted_y + 65
                         IN  IF isupper(t[i]) THEN decrypted_char
                             ELSE lower(decrypted_char)
                    ELSE t[i]])

(***************************************************************************)
(* vigenere.py                                                             *)
(***************************************************************************)
\* A key loop in which every character of the text, letter or not, moves
\* the key index on.
RECURSIVE vigenere_prepare_key_advancing(_, _, _, _, _)
vigenere_prepare_key_advancing(t, k, i, key_index, key_repeated) ==
    IF i > Len(t) THEN Ok(key_repeated)
    ELSE IF isalpha(t[i])
         THEN IF Len(k) = 0 THEN Raise("ZeroDivisionError")
              ELSE vigenere_prepare_key_advancing(t, k, i + 1, key_index + 1,
                       Append(key_repeated, k[(key_index % Len(k)) + 1]))
         ELSE vigenere_prepare_key_advancing(t, k, i + 1, key_index + 1,
                                             Append(key_repeated, t[i]))

RECURSIVE vigenere_prepare_key_loop(_, _, _, _, _)
vigenere_prepare_key_loop(t, k, i, key_index, key_repeated) ==
    IF i > Len(t) THEN Ok(key_repeated)
    ELSE IF isalpha(t[i])
         THEN IF Len(k) = 0 THEN Raise("ZeroDivisionError")
              ELSE vigenere_prepare_key_loop(t, k, i + 1, key_index + 1,
                       Append(key_repeated, k[(key_index % Len(k)) + 1]))
         ELSE vigenere_prepare_key_loop(t, k, i + 1, key_index,
                                        Append(key_repeated, t[i]))

vigenere_prepare_key(t, k) ==
    vigenere_prepare_key_loop(t, str_upper(k), 1, 0, <<>>)

vigenere_encrypt(t, k) ==
    LET prepared == vigenere_prepare_key(t, k) IN
    IF prepared.err # "none" THEN prepared
    ELSE Ok([i \in 1..Len(t) |->
               IF isalpha(t[i])
               THEN LET text_num == upper(t[i]) - 65
                        key_num == upper(prepared.val[i]) - 65
                        encrypted_num == (text_num + key_num) % M
                        encrypted_char == encrypted_num + 65
                    IN  IF isupper(t[i]) THEN encrypted_char
                        ELSE lower(encrypted_char)
               ELSE t[i]])

vigenere_decrypt(t, k) ==
    LET prepared == vigenere_prepare_key(t, k) IN
    IF prepared.err # "none" THEN prepared
    ELSE Ok([i \in 1..Len(t) |->
               IF isalpha(t[i])
               THEN LET text_num == upper(t[i]) - 65
                        key_num == upper(prepared.val[i]) - 65
                        decrypted_num == (text_num - key_num) % M
                        decrypted_char == decrypted_num + 65
                    IN  IF isupper(t[i]) THEN decrypted_char
                        ELSE lower(decrypted_char)
               ELSE t[i]])

(***************************************************************************)
(* beaufort.py                                                             *)
(***************************************************************************)
RECURSIVE beaufort_prepare_key_loop(_, _, _, _, _)
beaufort_prepare_key_loop(t, k, i, key_index, key_repeated) ==
    IF i > Len(t) THEN Ok(key_repeated)
    ELSE IF isalpha(t[i])
         THEN IF Len(k) = 0 THEN Raise("ZeroDivisionError")
              ELSE beaufort_prepare_key_loop(t, k, i + 1, key_index + 1,
                       Append(key_repeated, k[(key_index % Len(k)) + 1]))
         ELSE beaufort_prepare_key_loop(t, k, i + 1, key_index,
                                        Append(key_repeated, t[i]))

beaufort_prepare_key(t, k) ==
    beaufort_prepare_key_loop(t, str_upper(k), 1, 0, <<>>)

\* The transformation with its operands swapped: (P - K) mod 26.
beaufort_swapped(t, k) ==
    LET prepared == beaufort_prepare_key(t, k) IN
    IF prepared.err # "none" THEN prepared
    ELSE Ok([i \in 1..Len(t) |->
               IF isalpha(t[i])
               THEN LET text_num == upper(t[i]) - 65
                        key_num == upper(prepared.val[i]) - 65
                        beaufort_num == (text_num - key_num) % M
                        beaufort_char == beaufort_num + 65
                    IN  IF isupper(t[i]) THEN beaufort_char
                        ELSE lower(beaufort_char)
               ELSE t[i]])

beaufort(t, k) ==
    LET prepared == beaufort_prepare_key(t, k) IN
    IF prepared.err # "none" THEN prepared
    ELSE Ok([i \in 1..Len(t) |->
               IF isalpha(t[i])
               THEN LET text_num == upper(t[i]) - 65
                        key_num == upper(prepared.val[i]) - 65
                        beaufort_num == (key_num - text_num) % M
                        beaufort_char == beaufort_num + 65
                    IN  IF isupper(t[i]) THEN beaufort_char
                        ELSE lower(beaufort_char)
               ELSE t[i]])

beaufort_encrypt(t, k) == beaufort(t, k)

beaufort_decrypt(t, k) == beaufort(t, k)

(***************************************************************************)
(* autokey.py                                                              *)
(***************************************************************************)
\* The loop of prepare_key: i runs over range(len(priming_key), len(text)),
\* both branches of its test append text[text_index].
RECURSIVE autokey_prepare_key_loop(_, _, _, _)
autokey_prepare_key_loop(t, i, text_index, k) ==
    IF i >= Len(t) THEN k
    ELSE autokey_prepare_key_loop(t, i + 1, text_index + 1,
                                  Append(k, t[text_index + 1]))

autokey_prepare_key(t, priming_key) ==
    autokey_prepare_key_loop(str_upper(t), Len(priming_key), 0,
                             str_upper(priming_key))

\* An encrypt that does not give the result the case of its input.
autokey_encrypt_upper(t, priming_key) ==
    LET k == autokey_prepare_key(t, priming_key)
        n == IF Len(k) < Len(t) THEN Len(k) ELSE Len(t)
    IN  Ok([i \in 1..n |->
              IF isalpha(t[i])
              THEN LET text_num == upper(t[i]) - 65
                       key_num == upper(k[i]) - 65
                       encrypted_num == (text_num + key_num) % M
                   IN  encrypted_num + 65
              ELSE t[i]])

\* zip(text, key) stops at the shorter of the two.
autokey_encrypt(t, priming_key) ==
    LET k == autokey_prepare_key(t, priming_key)
        n == IF Len(k) < Len(t) THEN Len(k) ELSE Len(t)
    IN  Ok([i \in 1..n |->
              IF isalpha(t[i])
              THEN LET text_num == upper(t[i]) - 65
                       key_num == upper(k[i]) - 65
                       encrypted_num == (text_num + key_num) % M
                       encrypted_char == encrypted_num + 65
                   IN  IF isupper(t[i]) THEN encrypted_char
                       ELSE lower(encrypted_char)
              ELSE t[i]])

\* The loop of decrypt; i is the 0-based index of enumerate(text).
RECURSIVE autokey_decrypt_loop(_, _, _, _, _)
autokey_decrypt_loop(t, priming_key, i, text_index, result) ==
    IF i >= Len(t) THEN Ok(result)
    ELSE LET char == t[i + 1] IN
         IF isalpha(char)
         THEN IF i >= Len(priming_key) /\ text_index >= Len(result)
              THEN Raise("IndexError")
              ELSE LET k == str_upper(priming_key)
                       text_num == upper(char) - 65
                       key_num == IF i < Len(priming_key)
                                  THEN upper(k[i + 1]) - 65
                                  ELSE upper(result[text_index + 1]) - 65
                       next_index == IF i < Len(priming_key) THEN text_index
                                     ELSE text_index + 1
                       decrypted_num == (text_num - key_num) % M
                       decrypted_char == decrypted_num + 65
                   IN  autokey_decrypt_loop(t, priming_key, i + 1, next_index,
                           Append(result, IF isupper(char) THEN decrypted_char
                                          ELSE lower(decrypted_char)))
         ELSE autokey_decrypt_loop(t, priming_key, i + 1, text_index,
                                   Append(result, char))

autokey_decrypt(t, priming_key) ==
    autokey_decrypt_loop(t, priming_key, 0, 0, <<>>)

(***************************************************************************)
(* Sequence helpers used by the block and transposition ciphers.           *)
(***************************************************************************)
\* ''.join / list.extend over a sequence of sequences.
RECURSIVE Flatten(_)
Flatten(ss) == IF Len(ss) = 0 THEN <<>> ELSE Head(ss) \o Flatten(Tail(ss))

\* 'X' * n, and any other repeated character.
Repeat(c, n) == [i \in 1..(IF n > 0 THEN n ELSE 0) |-> c]

\* text[i:i+cols] for i in range(0, len(text), cols): the rows of a grid.
Chunks(s, cols) ==
    [k \in 1..((Len(s) + cols - 1) \div cols) |->
        SubSeq(s, (k - 1) * cols + 1,
               IF k * cols < Len(s) THEN k * cols ELSE Len(s))]

(***************************************************************************)
(* hill.py, for 2x2 key matrices <<<<a, b>>, <<c, d>>>>.                   *)
(***************************************************************************)
\* An adjugate that keeps the signs of the off-diagonal entries.
hill_adj_unsigned(matrix) ==
    << <<matrix[2][2], matrix[1][2]>>, <<matrix[2][1], matrix[1][1]>> >>

\* int(round(np.linalg.det(matrix))): the exact determinant.
np_linalg_det(matrix) ==
    matrix[1][1] * matrix[2][2] - matrix[1][2] * matrix[2][1]

\* np.round(det * np.linalg.inv(matrix)).astype(int), for det # 0: the
\* adjugate.
hill_adj(matrix) ==
    << <<matrix[2][2], -matrix[1][2]>>, <<-matrix[2][1], matrix[1][1]>> >>

\* np.gcd of two non-negative integers.
np_gcd(a, b) ==
    IF a = 0 THEN b
    ELSE IF b = 0 THEN a
    ELSE CHOOSE d \in 1..a :
            /\ a % d = 0 /\ b % d = 0
            /\ \A e \in 1..a : (a % e = 0 /\ b % e = 0) => e <= d

\* pow(base, -1, modulus): the inverse in 0..modulus-1, or ValueError.
py_pow_inverse(base, modulus) ==
    IF \E x \in 0..(modulus - 1) : (base * x) % modulus = 1
    THEN Ok(CHOOSE x \in 0..(modulus - 1) : (base * x) % modulus = 1)
    ELSE Raise("ValueError")

matrix_mod_inverse(matrix, modulus) ==
    LET det == np_linalg_det(matrix)
        det_inv == py_pow_inverse(det % modulus, modulus)
    IN  IF det_inv.err # "none" THEN det_inv
        ELSE LET adj == hill_adj(matrix)
             IN  Ok([i \in 1..2 |->
                       [j \in 1..2 |-> (det_inv.val * adj[i][j]) % modulus]])

\* prepare_text returns the blocks (rows of the text matrix) and the padding.
hill_prepare_text(t, block_size) ==
    LET letters == SelectSeq(str_upper(t), isalpha)
        padding == (block_size - (Len(letters) % block_size)) % block_size
        padded == letters \o Repeat(88, padding)
        numbers == [i \in 1..Len(padded) |-> padded[i] - 65]
    IN  [matrix |-> Chunks(numbers, block_size), padding |-> padding]

RECURSIVE hill_dot(_, _, _)
hill_dot(row, block, j) ==
    IF j > Len(row) THEN 0
    ELSE row[j] * block[j] + hill_dot(row, block, j + 1)

\* ((m @ text_matrix.T) % 26).T.flatten(), then chr(n + ord('A')).
hill_apply(m, text_matrix) ==
    Flatten([r \in 1..Len(text_matrix) |->
               [i \in 1..Len(m) |->
                   (hill_dot(m[i], text_matrix[r], 1) % M) + 65]])

\* An encrypt that rejects only a zero determinant.
hill_encrypt_zero_only(t, key_matrix) ==
    LET block_size == Len(key_matrix)
        det == np_linalg_det(key_matrix)
    IN  IF det = 0 THEN Raise("ValueError")
        ELSE Ok(hill_apply(key_matrix,
                           hill_prepare_text(t, block_size).matrix))

hill_encrypt(t, key_matrix) ==
    LET block_size == Len(key_matrix)
        det == np_linalg_det(key_matrix)
    IN  IF det = 0 \/ np_gcd(det % M, M) # 1 THEN Raise("ValueError")
        ELSE Ok(hill_apply(key_matrix,
                           hill_prepare_text(t, block_size).matrix))

hill_decrypt(t, key_matrix) ==
    LET block_size == Len(key_matrix)
        key_matrix_inv == matrix_mod_inverse(key_matrix, M)
    IN  IF key_matrix_inv.err # "none" THEN Raise(key_matrix_inv.err)
        ELSE LET prepared == hill_prepare_text(t, block_size)
                 decrypted_text == hill_apply(key_matrix_inv.val,
                                              prepared.matrix)
             IN  IF prepared.padding # 0
                 THEN Ok(SubSeq(decrypted_text, 1,
                                Len(decrypted_text) - prepared.padding))
                 ELSE Ok(decrypted_text)

(***************************************************************************)
(* route.py; coordinates are the source's 0-based (row, col) pairs.        *)
(***************************************************************************)
route_create_grid(t, rows, cols) ==
    LET filtered == str_upper(SelectSeq(t, isalnum))
        padding == rows * cols - Len(filtered)
        padded == IF padding > 0 THEN filtered \o Repeat(88, padding)
                  ELSE filtered
    IN  Chunks(padded, cols)

RECURSIVE spiral_inward_loop(_, _, _, _, _)
spiral_inward_loop(top, bottom, left, right, coordinates) ==
    IF ~(top <= bottom /\ left <= right) THEN coordinates
    ELSE LET go_right == Range(left, right + 1)
             c1 == coordinates \o
                   [k \in 1..Len(go_right) |-> <<top, go_right[k]>>]
             top1 == top + 1
             go_down == Range(top1, bottom + 1)
             c2 == c1 \o [k \in 1..Len(go_down) |-> <<go_down[k], right>>]
             right1 == right - 1
             go_left == RangeDown(right1, left - 1)
             c3 == IF top1 <= bottom
                   THEN c2 \o [k \in 1..Len(go_left) |-> <<bottom, go_left[k]>>]
                   ELSE c2
             bottom1 == IF top1 <= bottom THEN bottom - 1 ELSE bottom
             go_up == RangeDown(bottom1, top1 - 1)
             c4 == IF left <= right1
                   THEN c3 \o [k \in 1..Len(go_up) |-> <<go_up[k], left>>]
                   ELSE c3
             left1 == IF left <= right1 THEN left + 1 ELSE left
         IN  spiral_inward_loop(top1, bottom1, left1, right1, c4)

\* A spiral without the two tests that stop a single row or column from
\* being walked twice.
RECURSIVE spiral_unguarded_loop(_, _, _, _, _)
spiral_unguarded_loop(top, bottom, left, right, coordinates) ==
    IF ~(top <= bottom /\ left <= right) THEN coordinates
    ELSE LET go_right == Range(left, right + 1)
             c1 == coordinates \o
                   [k \in 1..Len(go_right) |-> <<top, go_right[k]>>]
             go_down == Range(top + 1, bottom + 1)
             c2 == c1 \o [k \in 1..Len(go_down) |-> <<go_down[k], right>>]
             go_left == RangeDown(right - 1, left - 1)
             c3 == c2 \o [k \in 1..Len(go_left) |-> <<bottom, go_left[k]>>]
             go_up == RangeDown(bottom - 1, top)
             c4 == c3 \o [k \in 1..Len(go_up) |-> <<go_up[k], left>>]
         IN  spiral_unguarded_loop(top + 1, bottom - 1, left + 1, right - 1, c4)

spiral_inward_unguarded(rows, cols) ==
    spiral_unguarded_loop(0, rows - 1, 0, cols - 1, <<>>)

spiral_inward(rows, cols) ==
    spiral_inward_loop(0, rows - 1, 0, cols - 1, <<>>)

spiral_outward(rows, cols) ==
    LET inward == spiral_inward(rows, cols)
    IN  [k \in 1..Len(inward) |-> inward[Len(inward) - k + 1]]

snake_pattern(rows, cols) ==
    Flatten([r \in 1..rows |->
               LET i == r - 1
                   js == IF i % 2 = 0 THEN Range(0, cols)
                         ELSE RangeDown(cols - 1, -1)
               IN  [k \in 1..Len(js) |-> <<i, js[k]>>]])

diagonal_pattern(rows, cols) ==
    Flatten([s \in 1..(rows + cols - 1) |->
               LET sum_idx == s - 1
                   InGrid(p) == 0 <= p[2] /\ p[2] < cols
               IN  SelectSeq([r \in 1..rows |-> <<r - 1, sum_idx - (r - 1)>>],
                             InGrid)])

Patterns == {"spiral_in", "spiral_out", "snake", "diagonal"}

pattern_funcs(pattern, rows, cols) ==
    CASE pattern = "spiral_in" -> spiral_inward(rows, cols)
      [] pattern = "spiral_out" -> spiral_outward(rows, cols)
      [] pattern = "snake" -> snake_pattern(rows, cols)
      [] pattern = "diagonal" -> diagonal_pattern(rows, cols)

route_encrypt(t, rows, cols, pattern) ==
    IF rows < 1 \/ cols < 1 THEN Raise("ValueError")
    ELSE LET grid == route_create_grid(t, rows, cols) IN
         IF pattern \notin Patterns THEN Raise("ValueError")
         ELSE LET coordinates == pattern_funcs(pattern, rows, cols) IN
              IF \E k \in 1..Len(coordinates) :
                    \/ coordinates[k][1] + 1 \notin 1..Len(grid)
                    \/ coordinates[k][2] + 1 \notin
                          1..Len(grid[coordinates[k][1] + 1])
              THEN Raise("IndexError")
              ELSE Ok([k \in 1..Len(coordinates) |->
                         grid[coordinates[k][1] + 1][coordinates[k][2] + 1]])

\* The fill loop of decrypt over zip(coordinates, text); a cell holds '' or
\* one character, kept as a string.
RECURSIVE route_fill(_, _, _, _)
route_fill(coordinates, t, k, grid) ==
    IF k > Len(coordinates) \/ k > Len(t) THEN grid
    ELSE route_fill(coordinates, t, k + 1,
             [grid EXCEPT ![coordinates[k][1]][coordinates[k][2]] = <<t[k]>>])

\* A decrypt of route.py without the test of the text length against the
\* grid size.
route_decrypt_any_length(t, rows, cols, pattern) ==
    IF rows < 1 \/ cols < 1 THEN Raise("ValueError")
    ELSE IF pattern \notin Patterns THEN Raise("ValueError")
    ELSE LET coordinates == pattern_funcs(pattern, rows, cols)
             empty == [r \in 0..(rows - 1) |-> [c \in 0..(cols - 1) |-> <<>>]]
             grid == route_fill(coordinates, t, 1, empty)
         IN  Ok(Flatten([r \in 1..rows |->
                   Flatten([c \in 1..cols |-> grid[r - 1][c - 1]])]))

route_decrypt(t, rows, cols, pattern) ==
    IF rows < 1 \/ cols < 1 THEN Raise("ValueError")
    ELSE IF rows * cols # Len(t) THEN Raise("ValueError")
    ELSE IF pattern \notin Patterns THEN Raise("ValueError")
    ELSE LET coordinates == pattern_funcs(pattern, rows, cols)
             empty == [r \in 0..(rows - 1) |-> [c \in 0..(cols - 1) |-> <<>>]]
         IN  IF \E k \in 1..Len(coordinates) :
                   \/ coordinates[k][1] \notin 0..(rows - 1)
                   \/ coordinates[k][2] \notin 0..(cols - 1)
             THEN Raise("IndexError")
             ELSE LET grid == route_fill(coordinates, t, 1, empty)
                  IN  Ok(Flatten([r \in 1..rows |->
                            Flatten([c \in 1..cols |-> grid[r - 1][c - 1]])]))

(***************************************************************************)
(* myszkowski.py                                                           *)
(***************************************************************************)
\* Returns (text, key, rows), or raises on the division by len(key).
prepare_text_and_key(t, k) ==
    LET filtered == str_upper(SelectSeq(t, isalnum))
        upper_key == str_upper(k)
        cols == Len(upper_key)
    IN  IF cols = 0 THEN Raise("ZeroDivisionError")
        ELSE LET rows == PyFloorDiv(Len(filtered) + cols - 1, cols)
                 padding == rows * cols - Len(filtered)
                 padded == IF padding > 0
                           THEN filtered \o Repeat(88, padding)
                           ELSE filtered
             IN  [err |-> "none", val |-> padded, key |-> upper_key,
                  rows |-> rows]

myszkowski_create_grid(t, k) ==
    LET prepared == prepare_text_and_key(t, k)
    IN  IF prepared.err # "none" THEN prepared
        ELSE Ok(Chunks(prepared.val, Len(prepared.key)))

\* sorted(chars): the characters of a set in ascending order.
RECURSIVE SortedChars(_)
SortedChars(S) ==
    IF S = {} THEN <<>>
    ELSE LET least == CHOOSE c \in S : \A d \in S : c <= d
         IN  <<least>> \o SortedChars(S \ {least})

\* dict(sorted(groups.items())): one entry per distinct key character, in
\* ascending character order, holding that character's column indices in
\* ascending order.
get_column_groups(k) ==
    LET chars == SortedChars({k[i] : i \in 1..Len(k)})
        Columns(ch) == SelectSeq(Range(0, Len(k)),
                                 LAMBDA i : k[i + 1] = ch)
    IN  [g \in 1..Len(chars) |-> Columns(chars[g])]

myszkowski_encrypt(t, k) ==
    LET grid == myszkowski_create_grid(t, k) IN
    IF grid.err # "none" THEN Raise(grid.err)
    ELSE LET column_groups == get_column_groups(k)
             columns == Flatten(column_groups)
         IN  Ok(Flatten([n \in 1..Len(columns) |->
                   [row \in 1..Len(grid.val) |->
                       grid.val[row][columns[n] + 1]]]))

\* The fill loop of decrypt: index counts the characters placed, column by
\* column of the visiting order and top to bottom within a column.
RECURSIVE myszkowski_fill(_, _, _, _, _)
myszkowski_fill(t, rows, columns, index, grid) ==
    IF index >= Len(columns) * rows THEN grid
    ELSE LET col == columns[(index \div rows) + 1]
             row == index % rows
         IN  myszkowski_fill(t, rows, columns, index + 1,
                             [grid EXCEPT ![row][col] = <<t[index + 1]>>])

\* A decrypt that groups the columns of the uppercased key.
myszkowski_decrypt_upper(t, k) ==
    LET cols == Len(k) IN
    IF cols = 0 THEN Raise("ZeroDivisionError")
    ELSE LET rows == PyFloorDiv(Len(t), cols)
             column_groups == get_column_groups(str_upper(k))
             empty == [r \in 0..(rows - 1) |-> [c \in 0..(cols - 1) |-> <<>>]]
             grid == myszkowski_fill(t, rows, Flatten(column_groups), 0, empty)
         IN  Ok(Flatten([r \in 1..rows |->
                   Flatten([c \in 1..cols |-> grid[r - 1][c - 1]])]))

myszkowski_decrypt(t, k) ==
    LET cols == Len(k) IN
    IF cols = 0 THEN Raise("ZeroDivisionError")
    ELSE LET rows == PyFloorDiv(Len(t), cols)
             column_groups == get_column_groups(k)
             empty == [r \in 0..(rows - 1) |-> [c \in 0..(cols - 1) |-> <<>>]]
             grid == myszkowski_fill(t, rows, Flatten(column_groups), 0, empty)
         IN  Ok(Flatten([r \in 1..rows |->
                   Flatten([c \in 1..cols |-> grid[r - 1][c - 1]])]))

(***************************************************************************)
(* railfence.py                                                            *)
(***************************************************************************)
\* The bounce: the direction is set at the top and the bottom rail, then the
\* rail moves.
next_direction(rail, direction, rails) ==
    IF rail = 0 THEN 1
    ELSE IF rail = rails - 1 THEN -1
    ELSE direction

EmptyFence(rails, n) ==
    [rail \in 0..(rails - 1) |-> [i \in 0..(n - 1) |-> 10]]

\* The loop of create_fence (and the marking loop of decrypt, which writes
\* '*' where create_fence writes text[i]).
RECURSIVE create_fence_loop(_, _, _, _, _, _)
create_fence_loop(t, rails, i, rail, direction, fence) ==
    IF i >= Len(t) THEN fence
    ELSE LET d == next_direction(rail, direction, rails)
         IN  create_fence_loop(t, rails, i + 1, rail + d, d,
                               [fence EXCEPT ![rail][i] = t[i + 1]])

create_fence(t, rails) ==
    create_fence_loop(t, rails, 0, 0, 1, EmptyFence(rails, Len(t)))

\* The cells of a fence, rail by rail.
FenceCells(fence, rails, n) ==
    Flatten([r \in 1..rails |-> [j \in 1..n |-> fence[r - 1][j - 1]]])

railfence_encrypt(t, rails) ==
    IF rails < 2 THEN Raise("ValueError")
    ELSE IF rails > Len(t) THEN Raise("ValueError")
    ELSE LET fence == create_fence(t, rails)
         IN  Ok(SelectSeq(FenceCells(fence, rails, Len(t)),
                          LAMBDA char : char # 10))

\* A fill loop that walks the cells position by position instead of rail by
\* rail.
RECURSIVE railfence_fill_by_column(_, _, _, _, _)
railfence_fill_by_column(t, rails, k, index, fence) ==
    IF k >= rails * Len(t) THEN fence
    ELSE LET i == k % rails
             j == k \div rails
         IN  IF fence[i][j] = 42
             THEN railfence_fill_by_column(t, rails, k + 1, index + 1,
                                 [fence EXCEPT ![i][j] = t[index + 1]])
             ELSE railfence_fill_by_column(t, rails, k + 1, index, fence)

\* The fill loop of decrypt over the cells (i, j), rail by rail; k counts the
\* cells visited, index the ciphertext characters placed.
RECURSIVE railfence_fill(_, _, _, _, _)
railfence_fill(t, rails, k, index, fence) ==
    IF k >= rails * Len(t) THEN fence
    ELSE LET i == k \div Len(t)
             j == k % Len(t)
         IN  IF fence[i][j] = 42
             THEN railfence_fill(t, rails, k + 1, index + 1,
                                 [fence EXCEPT ![i][j] = t[index + 1]])
             ELSE railfence_fill(t, rails, k + 1, index, fence)

\* The read-off loop of decrypt along the zigzag.
RECURSIVE railfence_read(_, _, _, _, _, _)
railfence_read(fence, n, rails, i, rail, direction) ==
    IF i >= n THEN <<>>
    ELSE LET d == next_direction(rail, direction, rails)
         IN  <<fence[rail][i]>> \o
             railfence_read(fence, n, rails, i + 1, rail + d, d)

railfence_decrypt(t, rails) ==
    IF rails < 2 THEN Raise("ValueError")
    ELSE IF rails > Len(t) THEN Raise("ValueError")
    ELSE LET marked == create_fence_loop(Repeat(42, Len(t)), rails, 0, 0, 1,
                                         EmptyFence(rails, Len(t)))
             filled == railfence_fill(t, rails, 0, 0, marked)
         IN  Ok(railfence_read(filled, Len(t), rails, 0, 0, 1))

(***************************************************************************)
(* ngram.py.  A dict is the sequence of its <<key, value>> items in        *)
(* insertion order; a float quotient a / b is the pair <<a, b>>.           *)
(***************************************************************************)
\* s[start:stop] for start >= 0: a negative stop counts from the end, and
\* both ends are clipped to the string.
PySlice(s, start, stop) ==
    LET lo == IF start > Len(s) THEN Len(s) ELSE start
        hi == IF stop < 0
              THEN (IF stop + Len(s) < 0 THEN 0 ELSE stop + Len(s))
              ELSE (IF stop > Len(s) THEN Len(s) ELSE stop)
    IN  IF lo < hi THEN SubSeq(s, lo + 1, hi) ELSE <<>>

\* str.isalpha of a string: non-empty and letters only.
str_isalpha(s) == Len(s) > 0 /\ \A i \in 1..Len(s) : isalpha(s[i])

str_lower(s) == [i \in 1..Len(s) |-> lower(s[i])]

\* \w of the regular expression, on ASCII.
iswordchar(c) == isalnum(c) \/ c = 95

\* re.findall(r'\b\w+\b', s): the maximal runs of word characters.
RECURSIVE re_findall_words(_, _, _)
re_findall_words(s, i, word) ==
    IF i > Len(s) THEN (IF Len(word) > 0 THEN <<word>> ELSE <<>>)
    ELSE IF iswordchar(s[i])
         THEN re_findall_words(s, i + 1, Append(word, s[i]))
         ELSE (IF Len(word) > 0 THEN <<word>> ELSE <<>>) \o
              re_findall_words(s, i + 1, <<>>)

\* ' '.join(words).
RECURSIVE str_join(_)
str_join(words) ==
    IF Len(words) = 0 THEN <<>>
    ELSE IF Len(words) = 1 THEN words[1]
    ELSE words[1] \o <<32>> \o str_join(Tail(words))

\* A get_ngrams in character mode that accepts every n.
get_ngrams_unchecked(t, n, as_word) ==
    LET u == str_upper(t)
        count == IF Len(u) - n + 1 > 0 THEN Len(u) - n + 1 ELSE 0
    IN  Ok([k \in 1..count |-> PySlice(u, k - 1, k - 1 + n)])

get_ngrams(t, n, as_word) ==
    IF n < 1 THEN Raise("ValueError")
    ELSE IF as_word
    THEN LET words == re_findall_words(str_lower(t), 1, <<>>)
         IN  IF Len(words) < n THEN Ok(<<>>)
             ELSE Ok([k \in 1..(Len(words) - n + 1) |->
                        str_join(SubSeq(words, k, k + n - 1))])
    ELSE LET u == str_upper(t)
             count == IF Len(u) - n + 1 > 0 THEN Len(u) - n + 1 ELSE 0
         IN  Ok([k \in 1..count |-> PySlice(u, k - 1, k - 1 + n)])

\* The position of key k among the items of dict d, 0 when it is no key.
dict_index(d, k) ==
    IF \E x \in 1..Len(d) : d[x][1] = k
    THEN CHOOSE x \in 1..Len(d) : d[x][1] = k
    ELSE 0

\* Counter(items): each distinct item with its count, in the order of first
\* occurrence.
RECURSIVE Counter(_, _, _)
Counter(items, i, counts) ==
    IF i > Len(items) THEN counts
    ELSE LET x == dict_index(counts, items[i])
         IN  Counter(items, i + 1,
                     IF x = 0 THEN Append(counts, <<items[i], 1>>)
                     ELSE [counts EXCEPT ![x] = <<items[i], counts[x][2] + 1>>])

\* Counter.most_common(): by descending count, equal counts in the order of
\* first occurrence.
RECURSIVE most_common(_)
most_common(counts) ==
    IF Len(counts) = 0 THEN <<>>
    ELSE LET x == CHOOSE x \in 1..Len(counts) :
                    /\ \A y \in 1..Len(counts) : counts[y][2] <= counts[x][2]
                    /\ \A y \in 1..(x - 1) : counts[y][2] < counts[x][2]
         IN  <<counts[x]>> \o
             most_common(SubSeq(counts, 1, x - 1) \o
                         SubSeq(counts, x + 1, Len(counts)))

RECURSIVE SumCounts(_)
SumCounts(counts) ==
    IF Len(counts) = 0 THEN 0 ELSE counts[1][2] + SumCounts(Tail(counts))

\* The percentage (count / total) * 100 is kept as <<count * 100, total>>.
frequency_analysis(t, n, as_word) ==
    LET ngrams == get_ngrams(t, n, as_word) IN
    IF ngrams.err # "none" THEN ngrams
    ELSE IF Len(ngrams.val) = 0 THEN Ok(<<>>)
    ELSE LET counts == Counter(ngrams.val, 1, <<>>)
             total == SumCounts(counts)
             ordered == most_common(counts)
         IN  Ok([k \in 1..Len(ordered) |->
                   <<ordered[k][1], <<ordered[k][2] * 100, total>> >>])

\* The inner loop of find_repeated_sequences over i for one length.
RECURSIVE find_sequences_loop(_, _, _, _)
find_sequences_loop(t, length, i, sequences) ==
    IF i >= Len(t) - length + 1 THEN sequences
    ELSE LET seq == PySlice(t, i, i + length)
             x == dict_index(sequences, seq)
         IN  IF str_isalpha(seq)
             THEN find_sequences_loop(t, length, i + 1,
                      IF x # 0
                      THEN [sequences EXCEPT
                               ![x] = <<seq, Append(sequences[x][2], i)>>]
                      ELSE Append(sequences, <<seq, <<i>> >>))
             ELSE find_sequences_loop(t, length, i + 1, sequences)

\* dict.update: a key already present keeps its place and takes the new
\* value, a new key is appended.
RECURSIVE dict_update(_, _)
dict_update(d, items) ==
    IF Len(items) = 0 THEN d
    ELSE LET x == dict_index(d, items[1][1])
         IN  dict_update(IF x # 0 THEN [d EXCEPT ![x] = items[1]]
                         ELSE Append(d, items[1]),
                         Tail(items))

\* The outer loop over length in range(min_length, max_length + 1).
RECURSIVE find_repeated_loop(_, _, _, _)
find_repeated_loop(t, length, max_length, repeated_sequences) ==
    IF length > max_length THEN repeated_sequences
    ELSE LET sequences == find_sequences_loop(t, length, 0, <<>>)
             more == SelectSeq(sequences, LAMBDA item : Len(item[2]) > 1)
         IN  find_repeated_loop(t, length + 1, max_length,
                                dict_update(repeated_sequences, more))

find_repeated_sequences(t, min_length, max_length) ==
    Ok(find_repeated_loop(str_upper(t), min_length, max_length, <<>>))

\* Every character of the text as it is.
ioc_characters(t) == t

\* The letters of text.upper().
ioc_letters(t) == SelectSeq(str_upper(t), isalpha)

RECURSIVE SumPairs(_)
SumPairs(counts) ==
    IF Len(counts) = 0 THEN 0
    ELSE counts[1][2] * (counts[1][2] - 1) + SumPairs(Tail(counts))

\* 0.0 is <<0, 1>>; otherwise the quotient of the two sums.
index_of_coincidence(t) ==
    LET letters == ioc_letters(t)
        n == Len(letters)
    IN  IF n <= 1 THEN Ok(<<0, 1>>)
        ELSE Ok(<<SumPairs(Counter(letters, 1, <<>>)), n * (n - 1)>>)

(***************************************************************************)
(* The inputs the state machine draws from.                                *)
(***************************************************************************)
\* "HELLO", "HELLO WORLD", "HELP", "KEY": the examples of the docstrings.
StrHELLO == <<72, 69, 76, 76, 79>>

StrHELLOWORLD == <<72, 69, 76, 76, 79, 32, 87, 79, 82, 76, 68>>

StrHELP == <<72, 69, 76, 80>>

StrKEY == <<75, 69, 89>>

\* 'A', 'Z', 'b', ' ': letters of both cases and a non-alphabetic character.
SubChars == {65, 90, 98, 32}

\* 'K', 'e', '1'.
KeyChars == {75, 101, 49}

\* 'H', 'e', ' '.
HillChars == {72, 101, 32}

\* 'a', '1', ' '.
BlockChars == {97, 49, 32}

\* 'A', 'B', 'b'.
MyszKeyChars == {65, 66, 98}

\* 'A', 'b', ' ', '\n'.
RailChars == {65, 98, 32, 10}

\* 'A', 'a', 'b', ' '.
NgramChars == {65, 97, 98, 32}

\* "A1B2C3...I9JZKYLX...": n uppercase alphanumeric characters, distinct up
\* to n = 34.
Distinct(n) ==
    [i \in 1..n |->
        IF i % 2 = 1 THEN 65 + (i \div 2)
        ELSE IF i < 20 THEN 48 + (i \div 2)
        ELSE 90 - ((i - 20) \div 2)]

SubTexts == SeqsUpTo(SubChars, MaxLen) \cup {StrHELLO, StrHELLOWORLD}

AffineTexts == SeqsUpTo(SubChars, MaxAffineLen) \cup {StrHELLO, StrHELLOWORLD}

Keywords == SeqsUpTo(KeyChars, MaxKeyLen) \cup {StrKEY}

Shifts == (-MaxShift)..MaxShift

\* The four pattern names of route.py and one it does not know.
PatternNames == Patterns \cup {"zigzag"}

HillMatrices ==
    {<< <<a, b>>, <<c, d>> >> :
        a \in 0..MaxEntry, b \in 0..MaxEntry,
        c \in 0..MaxEntry, d \in 0..MaxEntry}
    \cup {<< <<2, 1>>, <<3, 4>> >>, << <<4, 1>>, <<3, 4>> >>,
          << <<6, 2>>, <<2, 5>> >>, << <<25, 3>>, <<7, 24>> >>}

\* The functions of ngram.py.
Analyses ==
    {"get_ngrams", "frequency_analysis", "find_repeated_sequences",
     "index_of_coincidence"}

TextsOf(c) ==
    CASE c \in {"caesar", "august", "atbash", "vigenere", "beaufort",
                "autokey"} -> SubTexts
      [] c = "affine" -> AffineTexts
      [] c = "hill" -> SeqsUpTo(HillChars, MaxLen) \cup {StrHELP}
      [] c = "route" ->
            SeqsUpTo(BlockChars, MaxLen)
            \cup {Distinct(n) : n \in 0..(MaxDim * MaxDim)}
      [] c = "myszkowski" ->
            SeqsUpTo(BlockChars, MaxLen)
            \cup {Distinct(n) : n \in 0..MaxMyszLen}
      [] c = "railfence" ->
            SeqsUpTo(RailChars, MaxLen)
            \cup {Distinct(n) : n \in 0..MaxRailLen}
      [] c \in Analyses ->
            SeqsUpTo(NgramChars, MaxNgramLen) \cup {StrHELLOWORLD}

KeysOf(c) ==
    CASE c \in {"caesar", "august"} -> [shift : Shifts]
      [] c = "atbash" -> {[none |-> TRUE]}
      [] c = "affine" -> [a : (-MaxA)..MaxA, b : ((-MaxB)..MaxB) \cup {8}]
      [] c \in {"vigenere", "beaufort", "autokey"} -> [keyword : Keywords]
      [] c = "hill" -> [matrix : HillMatrices]
      [] c = "route" ->
            [rows : (-1)..MaxDim, cols : (-1)..MaxDim, pattern : PatternNames]
      [] c = "myszkowski" -> [keyword : SeqsUpTo(MyszKeyChars, MaxCols)]
      [] c = "railfence" -> [rails : (-1)..MaxRails]
      [] c \in {"get_ngrams", "frequency_analysis"} ->
            [n : (-1)..MaxN, as_word : BOOLEAN]
      [] c = "find_repeated_sequences" ->
            [min_length : (-MaxSeqLen)..MaxSeqLen,
             max_length : (-MaxSeqLen)..MaxSeqLen]
      [] c = "index_of_coincidence" -> {[none |-> TRUE]}

(***************************************************************************)
(* The state machine: a caller picks a cipher, a text and a key, and then  *)
(* calls encrypt on the text, decrypt on the text, or decrypt on what      *)
(* encrypt returned.  A caller of ngram.py picks one of its functions (held *)
(* in cipher), a text and the other arguments (held in key), and calls it  *)
(* once; enc holds what it returned.                                       *)
(***************************************************************************)
InitOf(ciphers) ==
    /\ cipher \in ciphers
    /\ text \in TextsOf(cipher)
    /\ key \in KeysOf(cipher)
    /\ pc = "start"
    /\ enc = Unset
    /\ dec = Unset

\* encrypt is called on the caller's text.
EncryptReturns(result) ==
    /\ pc = "start"
    /\ enc' = result
    /\ pc' = "encrypted"
    /\ UNCHANGED <<cipher, text, key, dec>>

\* What decrypt is called on: the caller's text, or what encrypt returned.
DecryptArg == IF pc = "start" THEN text ELSE enc.val

DecryptReturns(result) ==
    /\ pc = "start" \/ (pc = "encrypted" /\ enc.err = "none")
    /\ dec' = result
    /\ pc' = IF pc = "start" THEN "decrypted" ELSE "roundtrip"
    /\ UNCHANGED <<cipher, text, key, enc>>

CaesarEncrypt ==
    /\ cipher = "caesar"
    /\ EncryptReturns(Ok(caesar_encrypt(text, key.shift)))

CaesarDecrypt ==
    /\ cipher = "caesar"
    /\ DecryptReturns(Ok(caesar_decrypt(DecryptArg, key.shift)))

AugustEncrypt ==
    /\ cipher = "august"
    /\ EncryptReturns(Ok(august_encrypt(text, key.shift)))

AugustDecrypt ==
    /\ cipher = "august"
    /\ DecryptReturns(Ok(august_decrypt(DecryptArg, key.shift)))

AtbashEncrypt ==
    /\ cipher = "atbash"
    /\ EncryptReturns(Ok(atbash_encrypt(text)))

AtbashDecrypt ==
    /\ cipher = "atbash"
    /\ DecryptReturns(Ok(atbash_decrypt(DecryptArg)))

AffineEncrypt ==
    /\ cipher = "affine"
    /\ EncryptReturns(affine_encrypt(text, key.a, key.b))

AffineDecrypt ==
    /\ cipher = "affine"
    /\ DecryptReturns(affine_decrypt(DecryptArg, key.a, key.b))

VigenereEncrypt ==
    /\ cipher = "vigenere"
    /\ EncryptReturns(vigenere_encrypt(text, key.keyword))

VigenereDecrypt ==
    /\ cipher = "vigenere"
    /\ DecryptReturns(vigenere_decrypt(DecryptArg, key.keyword))

BeaufortEncrypt ==
    /\ cipher = "beaufort"
    /\ EncryptReturns(beaufort_encrypt(text, key.keyword))

BeaufortDecrypt ==
    /\ cipher = "beaufort"
    /\ DecryptReturns(beaufort_decrypt(DecryptArg, key.keyword))

AutokeyEncrypt ==
    /\ cipher = "autokey"
    /\ EncryptReturns(autokey_encrypt(text, key.keyword))

AutokeyDecrypt ==
    /\ cipher = "autokey"
    /\ DecryptReturns(autokey_decrypt(DecryptArg, key.keyword))

HillEncrypt ==
    /\ cipher = "hill"
    /\ EncryptReturns(hill_encrypt(text, key.matrix))

HillDecrypt ==
    /\ cipher = "hill"
    /\ DecryptReturns(hill_decrypt(DecryptArg, key.matrix))

RouteEncrypt ==
    /\ cipher = "route"
    /\ EncryptReturns(route_encrypt(text, key.rows, key.cols, key.pattern))

RouteDecrypt ==
    /\ cipher = "route"
    /\ DecryptReturns(route_decrypt(DecryptArg, key.rows, key.cols,
                                key.pattern))

MyszkowskiEncrypt ==
    /\ cipher = "myszkowski"
    /\ EncryptReturns(myszkowski_encrypt(text, key.keyword))

MyszkowskiDecrypt ==
    /\ cipher = "myszkowski"
    /\ DecryptReturns(myszkowski_decrypt(DecryptArg, key.keyword))

RailFenceEncrypt ==
    /\ cipher = "railfence"
    /\ EncryptReturns(railfence_encrypt(text, key.rails))

RailFenceDecrypt ==
    /\ cipher = "railfence"
    /\ DecryptReturns(railfence_decrypt(DecryptArg, key.rails))

\* A function of ngram.py is called on the caller's text.
AnalysisReturns(result) ==
    /\ pc = "start"
    /\ enc' = result
    /\ pc' = "returned"
    /\ UNCHANGED <<cipher, text, key, dec>>

GetNgrams ==
    /\ cipher = "get_ngrams"
    /\ AnalysisReturns(get_ngrams(text, key.n, key.as_word))

FrequencyAnalysis ==
    /\ cipher = "frequency_analysis"
    /\ AnalysisReturns(frequency_analysis(text, key.n, key.as_word))

FindRepeatedSequences ==
    /\ cipher = "find_repeated_sequences"
    /\ AnalysisReturns(find_repeated_sequences(text, key.min_length,
                                               key.max_length))

IndexOfCoincidence ==
    /\ cipher = "index_of_coincidence"
    /\ AnalysisReturns(index_of_coincidence(text))

(***************************************************************************)
(* Specifications: every cipher, and the families the properties are       *)
(* about.                                                                  *)
(***************************************************************************)
Ciphers ==
    {"caesar", "august", "atbash", "affine", "vigenere", "beaufort",
     "autokey", "hill", "route", "myszkowski", "railfence"}

Init == InitOf(Ciphers \cup Analyses)

Next ==
    \/ CaesarEncrypt \/ CaesarDecrypt
    \/ AugustEncrypt \/ AugustDecrypt
    \/ AtbashEncrypt \/ AtbashDecrypt
    \/ AffineEncrypt \/ AffineDecrypt
    \/ VigenereEncrypt \/ VigenereDecrypt
    \/ BeaufortEncrypt \/ BeaufortDecrypt
    \/ AutokeyEncrypt \/ AutokeyDecrypt
    \/ HillEncrypt \/ HillDecrypt
    \/ RouteEncrypt \/ RouteDecrypt
    \/ MyszkowskiEncrypt \/ MyszkowskiDecrypt
    \/ RailFenceEncrypt \/ RailFenceDecrypt
    \/ GetNgrams \/ FrequencyAnalysis
    \/ FindRepeatedSequences \/ IndexOfCoincidence

Spec == Init /\ [][Next]_vars

InitAutokey == InitOf({"autokey"})

NextAutokey == AutokeyEncrypt \/ AutokeyDecrypt

SpecAutokey == InitAutokey /\ [][NextAutokey]_vars

InitBlock == InitOf({"hill", "route", "myszkowski"})

NextBlock ==
    \/ HillEncrypt \/ HillDecrypt
    \/ RouteEncrypt \/ RouteDecrypt
    \/ MyszkowskiEncrypt \/ MyszkowskiDecrypt

SpecBlock == InitBlock /\ [][NextBlock]_vars

InitAffine == InitOf({"affine"})

NextAffine == AffineEncrypt \/ AffineDecrypt

SpecAffine == InitAffine /\ [][NextAffine]_vars

InitRoute == InitOf({"route"})

NextRoute == RouteEncrypt \/ RouteDecrypt

SpecRoute == InitRoute /\ [][NextRoute]_vars

InitMyszkowski == InitOf({"myszkowski"})

NextMyszkowski == MyszkowskiEncrypt \/ MyszkowskiDecrypt

SpecMyszkowski == InitMyszkowski /\ [][NextMyszkowski]_vars

InitRailFence == InitOf({"railfence"})

NextRailFence == RailFenceEncrypt \/ RailFenceDecrypt

SpecRailFence == InitRailFence /\ [][NextRailFence]_vars

InitShift == InitOf({"caesar", "august", "vigenere"})

NextShift ==
    \/ CaesarEncrypt \/ CaesarDecrypt
    \/ AugustEncrypt \/ AugustDecrypt
    \/ VigenereEncrypt \/ VigenereDecrypt

SpecShift == InitShift /\ [][NextShift]_vars

InitSelfInverse == InitOf({"atbash", "beaufort"})

NextSelfInverse ==
    \/ AtbashEncrypt \/ AtbashDecrypt
    \/ BeaufortEncrypt \/ BeaufortDecrypt

SpecSelfInverse == InitSelfInverse /\ [][NextSelfInverse]_vars

InitSubst ==
    InitOf({"caesar", "affine", "atbash", "august", "vigenere", "beaufort",
            "autokey"})

NextSubst ==
    \/ CaesarEncrypt \/ CaesarDecrypt
    \/ AffineEncrypt \/ AffineDecrypt
    \/ AtbashEncrypt \/ AtbashDecrypt
    \/ AugustEncrypt \/ AugustDecrypt
    \/ VigenereEncrypt \/ VigenereDecrypt
    \/ BeaufortEncrypt \/ BeaufortDecrypt
    \/ AutokeyEncrypt \/ AutokeyDecrypt

SpecSubst == InitSubst /\ [][NextSubst]_vars

InitGating == InitOf({"railfence", "route"})

NextGating ==
    \/ RailFenceEncrypt \/ RailFenceDecrypt
    \/ RouteEncrypt \/ RouteDecrypt

SpecGating == InitGating /\ [][NextGating]_vars

\* Hill on "HELP" under every key matrix with entries in 0..25 that is
\* invertible modulo 26, and on the short texts under the small key matrices.
InitHill ==
    /\ cipher = "hill"
    /\ \/ /\ text = StrHELP
          /\ \E a, b, c, d \in 0..(M - 1) :
                /\ (a * d - b * c) % 2 # 0
                /\ (a * d - b * c) % 13 # 0
                /\ key = [matrix |-> << <<a, b>>, <<c, d>> >>]
       \/ text \in TextsOf("hill") /\ key \in KeysOf("hill")
    /\ pc = "start"
    /\ enc = Unset
    /\ dec = Unset

NextHill == HillEncrypt \/ HillDecrypt

SpecHill == InitHill /\ [][NextHill]_vars

InitRepeated == InitOf({"find_repeated_sequences"})

NextRepeated == FindRepeatedSequences

SpecRepeated == InitRepeated /\ [][NextRepeated]_vars

InitNgrams == InitOf({"get_ngrams", "frequency_analysis"})

NextNgrams == GetNgrams \/ FrequencyAnalysis

SpecNgrams == InitNgrams /\ [][NextNgrams]_vars

InitIoC == InitOf({"index_of_coincidence"})

NextIoC == IndexOfCoincidence

SpecIoC == InitIoC /\ [][NextIoC]_vars

InitKeyStream == InitOf({"vigenere", "beaufort"})

NextKeyStream ==
    \/ VigenereEncrypt \/ VigenereDecrypt
    \/ BeaufortEncrypt \/ BeaufortDecrypt

SpecKeyStream == InitKeyStream /\ [][NextKeyStream]_vars

InitKeyword == InitOf({"vigenere", "beaufort", "autokey", "myszkowski"})

NextKeyword ==
    \/ VigenereEncrypt \/ VigenereDecrypt
    \/ BeaufortEncrypt \/ BeaufortDecrypt
    \/ AutokeyEncrypt \/ AutokeyDecrypt
    \/ MyszkowskiEncrypt \/ MyszkowskiDecrypt

SpecKeyword == InitKeyword /\ [][NextKeyword]_vars

InitInvalidKey == InitOf({"affine", "hill"})

NextInvalidKey ==
    \/ AffineEncrypt \/ AffineDecrypt
    \/ HillEncrypt \/ HillDecrypt

SpecInvalidKey == InitInvalidKey /\ [][NextInvalidKey]_vars

(***************************************************************************)
(* Properties.                                                             *)
(***************************************************************************)
IsAlphabetic(s) == \A i \in 1..Len(s) : isalpha(s[i])

IsUpperAlnum(s) == \A i \in 1..Len(s) : isupper(s[i]) \/ isdigit(s[i])

\* The text a block cipher works on: uppercased, and filtered to letters
\* (Hill) or to letters and digits (Route, Myszkowski).
Canonical(c, t) ==
    IF c = "hill" THEN SelectSeq(str_upper(t), isalpha)
    ELSE str_upper(SelectSeq(t, isalnum))

\* n is coprime with 26.
Coprime26(n) == n % 2 # 0 /\ n % 13 # 0

\* The residue 0..25 of a letter.
Residue(c) == upper(c) - 65

\* out has the length of in, keeps its non-alphabetic characters in place
\* and has a letter of the same case wherever in has a letter.
Preserves(in, out) ==
    /\ Len(out) = Len(in)
    /\ \A i \in 1..Len(in) :
          IF isalpha(in[i])
          THEN /\ isalpha(out[i])
               /\ isupper(out[i]) <=> isupper(in[i])
          ELSE out[i] = in[i]

\* C1: with a non-empty alphabetic priming key, Autokey decrypt of encrypt
\* returns the text, whatever mix of letters and other characters it holds.
C1_AutokeyRoundTrip ==
    (/\ cipher = "autokey"
     /\ pc = "roundtrip"
     /\ key.keyword # <<>>
     /\ IsAlphabetic(key.keyword))
    => dec = Ok(text)

\* C2: for Hill, Route (filtered length <= rows*cols) and Myszkowski
\* (non-empty key), decrypt of encrypt returns the canonical form of the
\* text, without the 'X' characters encrypt padded it with.
C2_PadStrippedRoundTrip ==
    (/\ cipher \in {"hill", "route", "myszkowski"}
     /\ pc = "roundtrip"
     /\ cipher = "route" =>
           Len(Canonical(cipher, text)) <= key.rows * key.cols
     /\ cipher = "myszkowski" => key.keyword # <<>>)
    => dec = Ok(Canonical(cipher, text))

\* C3: for every a coprime with 26, negative or above 25 included, Affine
\* decrypt of encrypt returns the text, and mod_inverse(a, 26) returns an x in
\* 0..25 with (a * x) mod 26 = 1.
C3_AffineRoundTrip ==
    (cipher = "affine" /\ pc = "roundtrip" /\ Coprime26(key.a)) =>
       /\ dec = Ok(text)
       /\ mod_inverse(key.a, M).err = "none"
       /\ mod_inverse(key.a, M).val \in 0..25
       /\ (key.a * mod_inverse(key.a, M).val) % M = 1

\* C4: Route decrypt of encrypt returns the text when the text is exactly
\* rows*cols uppercase alphanumeric characters, for each of the four patterns.
C4_RouteExactInversion ==
    (/\ cipher = "route"
     /\ pc = "roundtrip"
     /\ key.rows >= 1
     /\ key.cols >= 1
     /\ key.pattern \in Patterns
     /\ IsUpperAlnum(text)
     /\ Len(text) = key.rows * key.cols)
    => dec = Ok(text)

C4_Witness ==
    /\ cipher = "route"
    /\ pc = "roundtrip"
    /\ key = [rows |-> 3, cols |-> 3, pattern |-> "spiral_in"]
    /\ text = Distinct(9)
    /\ enc.err = "none"
    /\ enc.val # text
    /\ dec = Ok(text)

\* C5: Myszkowski decrypt of encrypt returns the text when the key is
\* non-empty and the text is uppercase alphanumeric with a length that is a
\* positive multiple of the key's length.
C5_MyszkowskiExactInversion ==
    (/\ cipher = "myszkowski"
     /\ pc = "roundtrip"
     /\ key.keyword # <<>>
     /\ IsUpperAlnum(text)
     /\ Len(text) > 0
     /\ Len(text) % Len(key.keyword) = 0)
    => dec = Ok(text)

\* The key "bBA": a repeated letter in two cases.
C5_Witness ==
    /\ cipher = "myszkowski"
    /\ pc = "roundtrip"
    /\ key.keyword = <<98, 66, 65>>
    /\ text = Distinct(6)
    /\ enc.err = "none"
    /\ enc.val # text
    /\ dec = Ok(text)

\* C6: Rail Fence decrypt of encrypt returns the text when the text is
\* uppercase alphanumeric and 2 <= rails <= len(text).
C6_RailFenceRoundTrip ==
    (/\ cipher = "railfence"
     /\ pc = "roundtrip"
     /\ IsUpperAlnum(text)
     /\ 2 <= key.rails
     /\ key.rails <= Len(text))
    => dec = Ok(text)

C6_Witness ==
    /\ cipher = "railfence"
    /\ pc = "roundtrip"
    /\ key.rails = 3
    /\ text = Distinct(6)
    /\ enc.err = "none"
    /\ enc.val # text
    /\ dec = Ok(text)

\* C7: Caesar and August decrypt of encrypt return the text for every
\* integer shift, and Vigenere decrypt of encrypt returns it for every
\* non-empty keyword.
C7_ShiftRoundTrip ==
    (/\ cipher \in {"caesar", "august", "vigenere"}
     /\ pc = "roundtrip"
     /\ cipher = "vigenere" => key.keyword # <<>>)
    => dec = Ok(text)

\* August on "HELLO WORLD" from a negative initial shift.
C7_Witness ==
    /\ cipher = "august"
    /\ pc = "roundtrip"
    /\ key.shift = -27
    /\ text = StrHELLOWORLD
    /\ enc.val # text
    /\ enc.val # caesar_encrypt(text, key.shift)
    /\ dec = Ok(text)

\* C8: Atbash maps the residue x of every letter to 25 - x (HELLO gives
\* SVOOL) and applied twice returns the text; Beaufort applied twice with the
\* same non-empty keyword returns the text.
C8_SelfInverse ==
    /\ (cipher = "atbash" /\ pc \in {"encrypted", "roundtrip"}) =>
          /\ \A i \in 1..Len(text) :
                isalpha(text[i]) =>
                   Residue(enc.val[i]) = 25 - Residue(text[i])
          /\ text = StrHELLO => enc.val = <<83, 86, 79, 79, 76>>
    /\ (cipher = "atbash" /\ pc = "roundtrip") => dec = Ok(text)
    /\ (cipher = "beaufort" /\ pc = "roundtrip" /\ key.keyword # <<>>) =>
          dec = Ok(text)

C8_Witness ==
    /\ cipher = "beaufort"
    /\ pc = "roundtrip"
    /\ key.keyword = StrKEY
    /\ text = StrHELLOWORLD
    /\ enc.err = "none"
    /\ enc.val # text
    /\ dec = Ok(text)

\* C9: what encrypt and decrypt of the seven substitution ciphers return has
\* the length of the input, the input's non-alphabetic characters in place
\* and letters of the input's case.
C9_CasePassthrough ==
    cipher \in {"caesar", "affine", "atbash", "august", "vigenere",
                "beaufort", "autokey"} =>
       /\ (pc \in {"encrypted", "roundtrip"} /\ enc.err = "none") =>
             Preserves(text, enc.val)
       /\ (pc = "decrypted" /\ dec.err = "none") => Preserves(text, dec.val)
       /\ (pc = "roundtrip" /\ dec.err = "none") =>
             Preserves(enc.val, dec.val)

\* Autokey encrypt of "b Z" with the key "e".
C9_Witness ==
    /\ cipher = "autokey"
    /\ pc = "encrypted"
    /\ key.keyword = <<101>>
    /\ text = <<98, 32, 90>>
    /\ enc.err = "none"
    /\ enc.val # text
    /\ Preserves(text, enc.val)

\* C10: Affine encrypt and decrypt raise ValueError and return no text when
\* a is not coprime with 26; Hill encrypt and decrypt do when the determinant
\* mod 26 is not coprime with 26, a zero determinant included.
C10_InvalidKeyGating ==
    /\ (cipher = "affine" /\ ~Coprime26(key.a)) =>
          /\ pc = "encrypted" => enc = Raise("ValueError")
          /\ pc = "decrypted" => dec = Raise("ValueError")
          /\ pc # "roundtrip"
    /\ (cipher = "hill"
        /\ ~Coprime26((key.matrix[1][1] * key.matrix[2][2]
                       - key.matrix[1][2] * key.matrix[2][1]) % M)) =>
          /\ pc = "encrypted" => enc = Raise("ValueError")
          /\ pc = "decrypted" => dec = Raise("ValueError")
          /\ pc # "roundtrip"

\* Hill decrypt under the key [[6, 2], [2, 5]], whose determinant is 26.
C10_Witness ==
    /\ cipher = "hill"
    /\ pc = "decrypted"
    /\ key.matrix = << <<6, 2>>, <<2, 5>> >>
    /\ text = StrHELP
    /\ dec = Raise("ValueError")

\* The argument and the outcome of the call made last.
CallArg == IF pc = "roundtrip" THEN enc.val ELSE text

CallResult == IF pc = "encrypted" THEN enc ELSE dec

\* C11: railfence.encrypt and railfence.decrypt raise whenever rails < 2 or
\* rails > len(text); route.encrypt and route.decrypt raise whenever
\* rows < 1, cols < 1 or the pattern name is not one of the four; and
\* route.decrypt raises whenever rows * cols # len(text).  The call then
\* returns no text at all.
C11_InvalidParameterGating ==
    pc # "start" =>
        /\ (cipher = "railfence"
              /\ (key.rails < 2 \/ key.rails > Len(CallArg)))
           => CallResult = Raise("ValueError")
        /\ (cipher = "route"
              /\ (key.rows < 1 \/ key.cols < 1 \/ key.pattern \notin Patterns))
           => CallResult = Raise("ValueError")
        /\ (cipher = "route" /\ pc \in {"decrypted", "roundtrip"}
              /\ key.rows * key.cols # Len(CallArg))
           => dec = Raise("ValueError")

\* route.decrypt was called with a 2x2 grid on a text of three characters
\* and raised.
C11_Witness ==
    /\ cipher = "route"
    /\ key = [rows |-> 2, cols |-> 2, pattern |-> "snake"]
    /\ text = Distinct(3)
    /\ pc = "decrypted"
    /\ dec = Raise("ValueError")

\* The length of t does not fit the block or grid size the key k of cipher c
\* implies: Hill counts the letters against the matrix size, Myszkowski the
\* characters against the key length, Route against rows * cols.
ShapeMismatch(c, t, k) ==
    CASE c = "hill" ->
            Len(SelectSeq(t, isalpha)) % Len(k.matrix) # 0
      [] c = "myszkowski" ->
            Len(k.keyword) > 0 /\ Len(t) % Len(k.keyword) # 0
      [] c = "route" -> Len(t) # k.rows * k.cols
      [] OTHER -> FALSE

\* C12: hill.decrypt, myszkowski.decrypt and route.decrypt fail with an
\* error when the length of the ciphertext does not fit the block or grid
\* size the key implies; none of them pads or truncates it silently.
C12_BlockShapeMismatch ==
    (pc \in {"decrypted", "roundtrip"} /\ ShapeMismatch(cipher, CallArg, key))
        => dec.err # "none"

\* C13: railfence.encrypt works on an uppercased copy of the text without
\* its non-alphanumeric characters, so what it returns holds uppercase
\* letters and digits only: no space and no lowercase letter.
C13_RailFenceCanonical ==
    (cipher = "railfence" /\ pc = "encrypted" /\ enc.err = "none")
        => IsUpperAlnum(enc.val)

\* The product of two 2x2 matrices, reduced modulo 26.
MatMul26(A, B) ==
    [i \in 1..2 |->
        [j \in 1..2 |-> (A[i][1] * B[1][j] + A[i][2] * B[2][j]) % M]]

Identity2 == << <<1, 0>>, <<0, 1>> >>

\* The transposed cofactor matrix of a 2x2 matrix.
Adjugate(K) == << <<K[2][2], 0 - K[1][2]>>, <<0 - K[2][1], K[1][1]>> >>

Det(K) == K[1][1] * K[2][2] - K[1][2] * K[2][1]

\* The number of letters of a text.
LetterCount(t) == Len(SelectSeq(t, isalpha))

\* C14: for every 2x2 key matrix K with entries in 0..25 whose determinant
\* is coprime with 26, matrix_mod_inverse(K, 26) is det^-1 * adjugate(K)
\* mod 26, its product with K is the identity modulo 26 on both sides, and
\* hill.decrypt(hill.encrypt(text, K), K) is the uppercased letters of every
\* text with an even number of letters.
C14_HillModularInverse ==
    (cipher = "hill" /\ Coprime26(Det(key.matrix))) =>
        LET K == key.matrix
            inv == matrix_mod_inverse(K, M)
        IN  /\ pc = "start" =>
                  /\ inv.err = "none"
                  /\ \E x \in 1..(M - 1) :
                        /\ (x * Det(K)) % M = 1
                        /\ inv.val =
                              [i \in 1..2 |->
                                  [j \in 1..2 |-> (x * Adjugate(K)[i][j]) % M]]
                  /\ MatMul26(K, inv.val) = Identity2
                  /\ MatMul26(inv.val, K) = Identity2
            /\ pc = "encrypted" => enc.err = "none"
            /\ (pc = "roundtrip" /\ LetterCount(text) % 2 = 0)
                  => dec = Ok(Canonical(cipher, text))

\* "HELP" under [[2,1],[3,4]]: four characters of ciphertext that decrypt
\* back to "HELP".
C14_Witness ==
    /\ cipher = "hill"
    /\ key.matrix = << <<2, 1>>, <<3, 4>> >>
    /\ text = StrHELP
    /\ pc = "roundtrip"
    /\ Len(enc.val) = 4
    /\ enc.val # StrHELP
    /\ dec = Ok(StrHELP)

\* The offsets at which w starts in u, overlapping occurrences included.
Offsets(u, w) ==
    {i \in 0..(Len(u) - Len(w)) : SubSeq(u, i + 1, i + Len(w)) = w}

\* The substrings of u of a length in lo..hi that hold letters only and
\* start at two or more offsets.
RepeatedSubstrings(u, lo, hi) ==
    {w \in UNION {{SubSeq(u, i + 1, i + L) : i \in 0..(Len(u) - L)} :
                     L \in (IF lo < 1 THEN 1 ELSE lo)..hi} :
        /\ str_isalpha(w)
        /\ Cardinality(Offsets(u, w)) >= 2}

\* The offsets in list are exactly those of set S, in strictly ascending
\* order.
IsAscendingListOf(list, S) ==
    /\ {list[x] : x \in 1..Len(list)} = S
    /\ \A x \in 1..(Len(list) - 1) : list[x] < list[x + 1]

\* C15: find_repeated_sequences(text, min, max) returns exactly the
\* all-alphabetic substrings of the uppercased text of a length between min
\* and max that start at two or more offsets, each once and each with the
\* complete list of its start offsets in strictly ascending order; a
\* substring that occurs once is no key.
C15_RepeatedSequences ==
    (cipher = "find_repeated_sequences" /\ pc = "returned") =>
        LET u == str_upper(text)
            d == enc.val
        IN  /\ enc.err = "none"
            /\ {d[x][1] : x \in 1..Len(d)} =
                  RepeatedSubstrings(u, key.min_length, key.max_length)
            /\ \A x, y \in 1..Len(d) : d[x][1] = d[y][1] => x = y
            /\ \A x \in 1..Len(d) :
                  IsAscendingListOf(d[x][2], Offsets(u, d[x][1]))

\* C16: get_ngrams and frequency_analysis raise for every n < 1 and return
\* nothing; for n >= 1 in character mode get_ngrams returns, in order, the
\* max(0, len(text) - n + 1) windows of length n of the uppercased text that
\* start at offsets 0, 1, 2, ..., which is the empty list when n > len(text).
C16_Ngrams ==
    (cipher \in {"get_ngrams", "frequency_analysis"} /\ pc = "returned") =>
        LET u == str_upper(text)
            n == key.n
            count == IF Len(text) - n + 1 > 0 THEN Len(text) - n + 1 ELSE 0
        IN  /\ n < 1 => enc = Raise("ValueError")
            /\ n >= 1 => enc.err = "none"
            /\ (cipher = "get_ngrams" /\ n >= 1 /\ ~key.as_word) =>
                  /\ Len(enc.val) = count
                  /\ \A k \in 1..count :
                        enc.val[k] = SubSeq(u, k, k + n - 1)
                  /\ n > Len(text) => enc.val = <<>>

\* The bigrams of "Ab " are "AB" and "B ".
C16_Witness ==
    /\ cipher = "get_ngrams"
    /\ text = <<65, 98, 32>>
    /\ key = [n |-> 2, as_word |-> FALSE]
    /\ pc = "returned"
    /\ enc = Ok(<< <<65, 66>>, <<66, 32>> >>)

\* The number of occurrences of letter c (uppercase) among the letters of t,
\* case-folded.
LetterFrequency(t, c) ==
    Cardinality({i \in 1..Len(t) : isalpha(t[i]) /\ upper(t[i]) = c})

\* The sum of f * (f - 1) over the letters c..'Z'.
RECURSIVE CoincidenceSum(_, _)
CoincidenceSum(t, c) ==
    IF c > 90 THEN 0
    ELSE LetterFrequency(t, c) * (LetterFrequency(t, c) - 1)
         + CoincidenceSum(t, c + 1)

\* C17: with N letters in the text and f_c occurrences of letter c, case
\* folded, index_of_coincidence returns sum f_c * (f_c - 1) / (N * (N - 1)),
\* which lies between 0 and 1, is 0 when all letters are distinct and 1 when
\* all are equal; for N <= 1 it returns 0 and divides by nothing.
C17_IndexOfCoincidence ==
    (cipher = "index_of_coincidence" /\ pc = "returned") =>
        LET N == LetterCount(text)
            num == enc.val[1]
            den == enc.val[2]
        IN  /\ enc.err = "none"
            /\ N <= 1 => enc.val = <<0, 1>>
            /\ N > 1 => enc.val = <<CoincidenceSum(text, 65), N * (N - 1)>>
            /\ den > 0 /\ 0 <= num /\ num <= den
            /\ (\A c \in 65..90 : LetterFrequency(text, c) <= 1) => num = 0
            /\ (N > 1 /\ \E c \in 65..90 : LetterFrequency(text, c) = N)
                  => num = den

\* "aA b": three letters, two of them the same, give 2 / 6.
C17_Witness ==
    /\ cipher = "index_of_coincidence"
    /\ text = <<97, 65, 32, 98>>
    /\ pc = "returned"
    /\ enc = Ok(<<2, 6>>)

\* coordinates visits every cell (r, c) of a rows x cols grid exactly once
\* and nothing else.
IsCoordinateOrder(coordinates, rows, cols) ==
    /\ Len(coordinates) = rows * cols
    /\ \A k \in 1..Len(coordinates) :
          /\ coordinates[k][1] \in 0..(rows - 1)
          /\ coordinates[k][2] \in 0..(cols - 1)
    /\ \A r \in 0..(rows - 1), c \in 0..(cols - 1) :
          Cardinality({k \in 1..Len(coordinates) :
                          coordinates[k] = <<r, c>>}) = 1

\* C18: for rows >= 1 and cols >= 1, single rows and single columns
\* included, spiral_inward, spiral_outward, snake_pattern and
\* diagonal_pattern each return rows * cols coordinates in which every cell
\* of the grid appears exactly once and no other coordinate appears, and
\* spiral_outward is spiral_inward reversed.
C18_CoordinateOrders ==
    (cipher = "route" /\ key.rows >= 1 /\ key.cols >= 1) =>
        LET rows == key.rows
            cols == key.cols
            inward == spiral_inward(rows, cols)
            outward == spiral_outward(rows, cols)
        IN  /\ IsCoordinateOrder(inward, rows, cols)
            /\ IsCoordinateOrder(outward, rows, cols)
            /\ IsCoordinateOrder(snake_pattern(rows, cols), rows, cols)
            /\ IsCoordinateOrder(diagonal_pattern(rows, cols), rows, cols)
            /\ Len(outward) = Len(inward)
            /\ \A k \in 1..Len(inward) :
                  outward[k] = inward[Len(inward) - k + 1]
            /\ (pc = "encrypted" /\ key.pattern \in Patterns
                   /\ IsUpperAlnum(text) /\ Len(text) = rows * cols)
                  => /\ enc.err = "none"
                     /\ \A ch \in 48..90 :
                           Cardinality({k \in 1..Len(text) : text[k] = ch}) =
                           Cardinality({k \in 1..Len(enc.val) :
                                           enc.val[k] = ch})

\* route.encrypt walked a single row of four cells as an inward spiral; the
\* order is left to right, and a 3 x 4 grid takes two rounds.
C18_Witness ==
    /\ cipher = "route"
    /\ key = [rows |-> 1, cols |-> 4, pattern |-> "spiral_in"]
    /\ text = Distinct(4)
    /\ pc = "encrypted"
    /\ enc = Ok(Distinct(4))
    /\ spiral_inward(1, 4) = << <<0, 0>>, <<0, 1>>, <<0, 2>>, <<0, 3>> >>
    /\ spiral_inward(3, 4) =
          << <<0, 0>>, <<0, 1>>, <<0, 2>>, <<0, 3>>, <<1, 3>>, <<2, 3>>,
             <<2, 2>>, <<2, 1>>, <<2, 0>>, <<1, 0>>, <<1, 1>>, <<1, 2>> >>

\* The columns of key k in the order the claim names: by uppercased key
\* letter ascending, columns of the same letter left to right.
UppercasedColumnOrder(k) ==
    LET u == str_upper(k)
        Before(i, j) == u[i + 1] < u[j + 1] \/ (u[i + 1] = u[j + 1] /\ i < j)
    IN  [n \in 1..Len(k) |->
            CHOOSE i \in 0..(Len(k) - 1) :
               Cardinality({j \in 0..(Len(k) - 1) : Before(j, i)}) = n - 1]

\* C19: myszkowski.encrypt groups the columns by their uppercased key
\* letter, visits the groups in ascending letter order and the columns of a
\* group left to right, and emits each column top to bottom; so that
\* encrypt(text, key) = encrypt(text, key.upper()).
C19_MyszkowskiUppercasedKey ==
    (cipher = "myszkowski" /\ pc = "encrypted" /\ enc.err = "none") =>
        LET grid == myszkowski_create_grid(text, key.keyword).val
            columns == UppercasedColumnOrder(key.keyword)
        IN  /\ enc = myszkowski_encrypt(text, str_upper(key.keyword))
            /\ enc.val = Flatten([n \in 1..Len(columns) |->
                              [row \in 1..Len(grid) |->
                                  grid[row][columns[n] + 1]]])

\* The number of alphabetic characters of t before position i (1-based).
LettersBefore(t, i) == Cardinality({x \in 1..(i - 1) : isalpha(t[x])})

\* C20: in vigenere.encrypt and in beaufort, the j-th alphabetic character
\* of the text, counted from 0 over the alphabetic characters only, is
\* combined with the letter K[j mod len(K)] of the uppercased keyword, as
\* (x + k) mod 26 in Vigenere and (k - x) mod 26 in Beaufort, and keeps its
\* case; every other character is copied and leaves j alone.
C20_RepeatingKeyStream ==
    (cipher \in {"vigenere", "beaufort"} /\ pc = "encrypted"
       /\ enc.err = "none") =>
        LET K == str_upper(key.keyword)
        IN  /\ Len(enc.val) = Len(text)
            /\ \A i \in 1..Len(text) :
                  IF isalpha(text[i])
                  THEN LET j == LettersBefore(text, i)
                           k == K[(j % Len(K)) + 1] - 65
                           x == Residue(text[i])
                       IN  /\ isupper(enc.val[i]) = isupper(text[i])
                           /\ islower(enc.val[i]) = islower(text[i])
                           /\ Residue(enc.val[i]) =
                                 IF cipher = "vigenere"
                                 THEN PyMod(x + k, M)
                                 ELSE PyMod(k - x, M)
                  ELSE enc.val[i] = text[i]

\* "HELLO WORLD" under the keyword "KEY" gives "RIJVS UYVJN" in Vigenere:
\* the O takes the E, and the W after the space takes the Y that follows.
C20_Witness ==
    /\ cipher = "vigenere"
    /\ text = StrHELLOWORLD
    /\ key.keyword = StrKEY
    /\ pc = "encrypted"
    /\ enc = Ok(<<82, 73, 74, 86, 83, 32, 85, 89, 86, 74, 78>>)

\* The number of occurrences of character ch in s.
CountOf(s, ch) == Cardinality({i \in 1..Len(s) : s[i] = ch})

\* a and b hold the same characters, each as often: one is a permutation of
\* the other.
IsPermutation(a, b) ==
    /\ Len(a) = Len(b)
    /\ \A ch \in 0..127 : CountOf(a, ch) = CountOf(b, ch)

\* C21: for every text and every rows, cols >= 1, what route.encrypt returns
\* is a permutation of the uppercased, alphanumeric-filtered text followed by
\* its 'X' padding; no character of the filtered text is lost, also when
\* that text is longer than rows * cols.
C21_RouteKeepsText ==
    (cipher = "route" /\ pc = "encrypted" /\ key.rows >= 1 /\ key.cols >= 1
       /\ key.pattern \in Patterns) =>
        LET filtered == Canonical(cipher, text)
            padded == filtered \o
                      Repeat(88, key.rows * key.cols - Len(filtered))
        IN  /\ enc.err = "none"
            /\ IsPermutation(enc.val, padded)

\* The rails create_fence writes to at i, i + 1, ..., n - 1, starting from
\* rail and direction.
RECURSIVE RailsWritten(_, _, _, _, _)
RailsWritten(n, rails, i, rail, direction) ==
    IF i >= n THEN <<>>
    ELSE LET d == next_direction(rail, direction, rails)
         IN  <<rail>> \o RailsWritten(n, rails, i + 1, rail + d, d)

\* C22: for every text, line breaks and other whitespace included, and every
\* rails with 2 <= rails <= len(text), railfence.encrypt returns a text of
\* the same length with the same characters, each as often; and every write
\* to the fence goes to a rail in 0..rails-1.
C22_RailFencePermutation ==
    (cipher = "railfence" /\ pc = "encrypted"
       /\ 2 <= key.rails /\ key.rails <= Len(text)) =>
        LET written == RailsWritten(Len(text), key.rails, 0, 0, 1)
        IN  /\ enc.err = "none"
            /\ \A i \in 1..Len(written) : written[i] \in 0..(key.rails - 1)
            /\ IsPermutation(enc.val, text)

\* C23: for every keyword, the empty one included, encrypt and decrypt of
\* Vigenere, Beaufort, Autokey and Myszkowski on a text that holds a letter
\* either return a text or raise ValueError; they never end in a division
\* by zero or an index out of range.
C23_KeywordTypedErrors ==
    (cipher \in {"vigenere", "beaufort", "autokey", "myszkowski"}
       /\ pc # "start" /\ LetterCount(CallArg) > 0)
        => CallResult.err \in {"none", "ValueError"}

====
